---- MODULE Spec2Model ----
(***************************************************************************)
(* Model of the sudoksolv constraint-propagation solver (solver.go).       *)
(* The state is the two package-level arrays grid and gridOptions, the     *)
(* local variable remains of main, and the position of main.  The program  *)
(* is run twice on the same input; first holds the outcome of the first    *)
(* run while the second one executes.                                      *)
(***************************************************************************)
EXTENDS Integers, Sequences, FiniteSets, TLC

VARIABLES str, grid, gridOptions, remains, pc, zone, iter, listCalls, result,
          first

vars ==
  <<str, grid, gridOptions, remains, pc, zone, iter, listCalls, result, first>>

(***************************************************************************)
(* Inputs.  The solved grid of the puzzle compiled into main, from which   *)
(* inputs are derived by blanking cells and overwriting one given.         *)
(***************************************************************************)
MaxHoles ==
  5

MaxCorrupt ==
  2

\* The 81-digit literal passed to strToGrid in main.
MainPuzzle ==
  << 0,0,6,0,0,0,3,0,0,
     4,3,5,0,0,9,0,0,7,
     7,0,1,6,0,0,0,0,0,
     8,7,0,0,0,2,0,1,0,
     0,0,0,0,0,0,0,0,0,
     0,6,0,9,0,0,0,8,2,
     0,0,0,0,0,6,1,0,5,
     9,0,0,1,0,0,2,7,6,
     0,0,7,0,0,0,8,0,0 >>

\* A complete valid grid (the completion of MainPuzzle), as an input string.
Solution ==
  << 2,8,6,4,7,5,3,9,1,
     4,3,5,8,1,9,6,2,7,
     7,9,1,6,2,3,4,5,8,
     8,7,9,3,6,2,5,1,4,
     1,4,2,5,8,7,9,6,3,
     5,6,3,9,4,1,7,8,2,
     3,2,8,7,9,6,1,4,5,
     9,5,4,1,3,8,2,7,6,
     6,1,7,2,5,4,8,3,9 >>

\* Positions (1..81, row-major) that an input may leave empty.
HolePool ==
  << 5, 9, 14, 18, 23, 6, 4, 41 >>

\* Overwrites <<position, digit>> that make an input ill-formed.
CorruptPool ==
  << <<1, 1>>, <<13, 7>>, <<10, 2>>, <<2, 4>>, <<15, 3>> >>

HoleSets ==
  SUBSET { HolePool[i] : i \in 1..MaxHoles }

Blank(s, H) ==
  [i \in 1..81 |-> IF i \in H THEN 0 ELSE s[i]]

Corrupt(s, k) ==
  IF k = 0 THEN s
  ELSE [i \in 1..81 |-> IF i = CorruptPool[k][1] THEN CorruptPool[k][2] ELSE s[i]]

Inputs ==
  { Corrupt(Blank(Solution, H), k) : H \in HoleSets, k \in 0..MaxCorrupt }
    \cup { MainPuzzle }

(***************************************************************************)
(* strToGrid: the string fills the grid line by line.                      *)
(***************************************************************************)
strToGrid(s) ==
  [row \in 0..8 |-> [col \in 0..8 |-> s[row * 9 + col + 1]]]

(***************************************************************************)
(* Constraint checks.                                                      *)
(***************************************************************************)
isInRow(g, row, val) ==
  \E col \in 0..8 : g[row][col] = val

\* Mutation: the column scan stops one row short.
isInCol_short(g, col, val) ==
  \E row \in 0..7 : g[row][col] = val

isInCol(g, col, val) ==
  \E row \in 0..8 : g[row][col] = val

\* Mutation: row and column exchanged in the square number.
getSquareFromRowCol_transposed(row, col) ==
  LET rowOffset == (col \div 3) * 3
      colOffset == row \div 3
  IN  (colOffset + 1) + rowOffset

getSquareFromRowCol(row, col) ==
  LET rowOffset == (row \div 3) * 3
      colOffset == col \div 3
  IN  (colOffset + 1) + rowOffset

\* The rows and cols arrays of isInSquare.
squareCells(square) ==
  LET rowOffset == ((square - 1) \div 3) * 3
      colOffset == ((square - 1) % 3) * 3
  IN  {0 + rowOffset, 1 + rowOffset, 2 + rowOffset}
        \X {0 + colOffset, 1 + colOffset, 2 + colOffset}

isInSquare(g, square, val) ==
  \E rc \in squareCells(square) : g[rc[1]][rc[2]] = val

\* Mutation: the comparison is inverted, the filled cells are counted.
countEmptyCells_filled(g) ==
  Cardinality({ rc \in (0..8) \X (0..8) : g[rc[1]][rc[2]] # 0 })

countEmptyCells(g) ==
  Cardinality({ rc \in (0..8) \X (0..8) : g[rc[1]][rc[2]] = 0 })

(***************************************************************************)
(* listOptionsPerEmptyCell: the inner loop over value = 1..9 appends the   *)
(* values that pass the three checks; filled cells are skipped.            *)
(***************************************************************************)
RECURSIVE optionsFrom(_, _, _, _)
optionsFrom(g, row, col, value) ==
  IF value >= 10 THEN << >>
  ELSE IF isInRow(g, row, value) THEN optionsFrom(g, row, col, value + 1)
  ELSE IF isInCol(g, col, value) THEN optionsFrom(g, row, col, value + 1)
  ELSE IF isInSquare(g, getSquareFromRowCol(row, col), value)
       THEN optionsFrom(g, row, col, value + 1)
  ELSE << value >> \o optionsFrom(g, row, col, value + 1)

listOptionsPerEmptyCell(g, o) ==
  [row \in 0..8 |-> [col \in 0..8 |->
     IF g[row][col] # 0 THEN o[row][col] ELSE optionsFrom(g, row, col, 1)]]

(***************************************************************************)
(* fillSecuredOptions: every cell with exactly one option is written to    *)
(* the grid and its options are reset.                                     *)
(***************************************************************************)
fillSecuredGrid(g, o) ==
  [row \in 0..8 |-> [col \in 0..8 |->
     IF Len(o[row][col]) = 1 THEN o[row][col][1] ELSE g[row][col]]]

\* Mutation: the options of a committed cell are not reset.
fillSecuredOptions_keep(o) ==
  o

fillSecuredOptions(o) ==
  [row \in 0..8 |-> [col \in 0..8 |->
     IF Len(o[row][col]) = 1 THEN << >> ELSE o[row][col]]]

(***************************************************************************)
(* reduceOptionsFromUniqueOccurenceGeneric on the zone                     *)
(* rowMin..rowMax x colMin..colMax.                                        *)
(***************************************************************************)
zoneCells(z) ==
  (z.rowMin .. z.rowMax) \X (z.colMin .. z.colMax)

\* dict[option]: the number of occurrences of option in the zone's options.
dict(o, z, option) ==
  Cardinality({ e \in zoneCells(z) \X (1..9) :
                  /\ e[2] <= Len(o[e[1][1]][e[1][2]])
                  /\ o[e[1][1]][e[1][2]][e[2]] = option })

\* The values valueToFix can hold after the loop over the map: the map is
\* ranged over in an unspecified order, so any key with amount 1 can be the
\* last one assigned; without such a key valueToFix keeps its zero value.
\* Mutation: every key of the map is taken, whatever its amount.
valuesToFix_anyAmount(o, z) ==
  LET keys == { option \in 1..9 : dict(o, z, option) >= 1 }
  IN  IF keys = {} THEN {0} ELSE keys

\* Mutation: no value is ever fixed (propagation without the reducer).
valuesToFix_none(o, z) ==
  {0}

valuesToFix(o, z) ==
  LET ones == { option \in 1..9 : dict(o, z, option) = 1 }
  IN  IF ones = {} THEN {0} ELSE ones

hasOption(opts, v) ==
  \E i \in 1..Len(opts) : opts[i] = v

\* Mutation: the second browse is not limited to the zone.
forceValue_everywhere(o, z, valueToFix) ==
  [row \in 0..8 |-> [col \in 0..8 |->
     IF hasOption(o[row][col], valueToFix)
     THEN << valueToFix >> ELSE o[row][col]]]

forceValue(o, z, valueToFix) ==
  [row \in 0..8 |-> [col \in 0..8 |->
     IF <<row, col>> \in zoneCells(z) /\ hasOption(o[row][col], valueToFix)
     THEN << valueToFix >> ELSE o[row][col]]]

\* The zone of the k-th call made by reduceOptionsFromUniqueOccurence:
\* squares 1..9, then rows 0..8, then cols 0..8.
zoneOfCall(k) ==
  IF k <= 9 THEN
    LET rowOffset == ((k - 1) \div 3) * 3
        colOffset == ((k - 1) % 3) * 3
    IN  [rowMin |-> 0 + rowOffset, rowMax |-> 2 + rowOffset,
         colMin |-> 0 + colOffset, colMax |-> 2 + colOffset]
  ELSE IF k <= 18 THEN
    [rowMin |-> k - 10, rowMax |-> k - 10, colMin |-> 0, colMax |-> 8]
  ELSE
    [rowMin |-> 0, rowMax |-> 8, colMin |-> k - 19, colMax |-> k - 19]

(***************************************************************************)
(* main.                                                                   *)
(***************************************************************************)
Init ==
  /\ str \in Inputs
  /\ grid = strToGrid(str)
  /\ gridOptions = [row \in 0..8 |-> [col \in 0..8 |-> << >>]]
  /\ remains = 0
  /\ pc = "start"
  /\ zone = 0
  /\ iter = 0
  /\ listCalls = 0
  /\ result = "none"
  /\ first = [result |-> "none", grid |-> strToGrid(str)]

\* remains = countEmptyCells(); listOptionsPerEmptyCell()
ListInitial ==
  /\ pc = "start"
  /\ remains' = countEmptyCells(grid)
  /\ gridOptions' = listOptionsPerEmptyCell(grid, gridOptions)
  /\ listCalls' = listCalls + 1
  /\ pc' = "loop"
  /\ UNCHANGED <<str, grid, zone, iter, result, first>>

\* Mutation: the loop condition is remains >= 0.
LoopTest_atLeastOnce ==
  /\ pc = "loop"
  /\ pc' = "reduce"
  /\ zone' = 1
  /\ iter' = iter + 1
  /\ UNCHANGED <<str, grid, gridOptions, remains, listCalls, result, first>>

\* for (remains > 0)
LoopTest ==
  /\ pc = "loop"
  /\ IF remains > 0
     THEN /\ pc' = "reduce"
          /\ zone' = 1
          /\ iter' = iter + 1
     ELSE /\ pc' = "exit"
          /\ UNCHANGED <<zone, iter>>
  /\ UNCHANGED <<str, grid, gridOptions, remains, listCalls, result, first>>

\* one call of reduceOptionsFromUniqueOccurenceGeneric
ReduceZone ==
  /\ pc = "reduce"
  /\ \E valueToFix \in valuesToFix(gridOptions, zoneOfCall(zone)) :
       gridOptions' = forceValue(gridOptions, zoneOfCall(zone), valueToFix)
  /\ IF zone < 27
     THEN zone' = zone + 1 /\ pc' = "reduce"
     ELSE zone' = 0 /\ pc' = "fill"
  /\ UNCHANGED <<str, grid, remains, iter, listCalls, result, first>>

FillSecured ==
  /\ pc = "fill"
  /\ grid' = fillSecuredGrid(grid, gridOptions)
  /\ gridOptions' = fillSecuredOptions(gridOptions)
  /\ pc' = "list"
  /\ UNCHANGED <<str, remains, zone, iter, listCalls, result, first>>

ListAgain ==
  /\ pc = "list"
  /\ gridOptions' = listOptionsPerEmptyCell(grid, gridOptions)
  /\ listCalls' = listCalls + 1
  /\ pc' = "check"
  /\ UNCHANGED <<str, grid, remains, zone, iter, result, first>>

\* if (countEmptyCells() == remains) break; remains = countEmptyCells()
CheckProgress ==
  /\ pc = "check"
  /\ IF countEmptyCells(grid) = remains
     THEN pc' = "exit" /\ UNCHANGED remains
     ELSE pc' = "loop" /\ remains' = countEmptyCells(grid)
  /\ UNCHANGED <<str, grid, gridOptions, zone, iter, listCalls, result, first>>

\* if (remains != 0) log.Fatal("Could not solve.")
Exit ==
  /\ pc = "exit"
  /\ result' = IF remains # 0 THEN "Stalled" ELSE "Solved"
  /\ pc' = "done"
  /\ UNCHANGED <<str, grid, gridOptions, remains, zone, iter, listCalls, first>>

\* The program is started a second time on the same input string: the
\* package-level arrays and the locals of main are initialised afresh.
Rerun ==
  /\ pc = "done"
  /\ first.result = "none"
  /\ first' = [result |-> result, grid |-> grid]
  /\ grid' = strToGrid(str)
  /\ gridOptions' = [row \in 0..8 |-> [col \in 0..8 |-> << >>]]
  /\ remains' = 0
  /\ pc' = "start"
  /\ zone' = 0
  /\ iter' = 0
  /\ listCalls' = 0
  /\ result' = "none"
  /\ UNCHANGED str

Next ==
  \/ Rerun
  \/ ListInitial
  \/ LoopTest
  \/ ReduceZone
  \/ FillSecured
  \/ ListAgain
  \/ CheckProgress
  \/ Exit

Spec ==
  Init /\ [][Next]_vars

FairSpec ==
  Spec /\ WF_vars(Next)

(***************************************************************************)
(* Vocabulary of the properties, stated independently of the code.         *)
(***************************************************************************)
Cells ==
  (0..8) \X (0..8)

Given ==
  strToGrid(str)

Empties(g) ==
  Cardinality({ rc \in Cells : g[rc[1]][rc[2]] = 0 })

RowOf(rc) ==
  { x \in Cells : x[1] = rc[1] }

ColOf(rc) ==
  { x \in Cells : x[2] = rc[2] }

BoxOf(rc) ==
  { x \in Cells : x[1] \div 3 = rc[1] \div 3 /\ x[2] \div 3 = rc[2] \div 3 }

\* The 27 zones: 9 rows, 9 columns, 9 boxes.
Zones ==
  { RowOf(rc) : rc \in Cells } \cup { ColOf(rc) : rc \in Cells }
    \cup { BoxOf(rc) : rc \in Cells }

\* Every zone of g holds each of 1..9 exactly once.
ValidGrid(g) ==
  \A Z \in Zones : \A v \in 1..9 :
    Cardinality({ rc \in Z : g[rc[1]][rc[2]] = v }) = 1

\* String s agrees with all given digits of the input.
Agrees(s, input) ==
  \A i \in 1..81 : input[i] # 0 => s[i] = input[i]

\* A second completion of the inputs whose holes cover HolePool[1..4]:
\* Solution with the 7/1 rectangle in rows 0,1 and columns 4,8 exchanged.
Solution2 ==
  [i \in 1..81 |-> IF i \in {5, 18} THEN 1
                    ELSE IF i \in {9, 14} THEN 7 ELSE Solution[i]]

ValidFullGrids ==
  { s \in {Solution, Solution2} : ValidGrid(strToGrid(s)) }

\* The valid full grids known to complete the input.
Completions ==
  { s \in ValidFullGrids : Agrees(s, str) }

OptionSet(o, rc) ==
  { o[rc[1]][rc[2]][i] : i \in 1..Len(o[rc[1]][rc[2]]) }

\* The values that occur in no zone of the cell.
Legal(g, rc) ==
  { v \in 1..9 : \A x \in RowOf(rc) \cup ColOf(rc) \cup BoxOf(rc) :
                    g[x[1]][x[2]] # v }

Ascending(q) ==
  \A i \in 1..Len(q) : \A j \in 1..Len(q) : i < j => q[i] < q[j]

\* The number of cells of zone Z that list v as an option.
Tally(o, Z, v) ==
  Cardinality({ rc \in Z : v \in OptionSet(o, rc) })

DeadEnd ==
  \E rc \in Cells : grid[rc[1]][rc[2]] = 0 /\ gridOptions[rc[1]][rc[2]] = << >>

TypeOK ==
  /\ pc \in {"start", "loop", "reduce", "fill", "list", "check", "exit", "done"}
  /\ result \in {"none", "Solved", "Stalled"}
  /\ remains \in 0..81
  /\ zone \in 0..27

(***************************************************************************)
(* C5.  In every reachable state a cell's candidate set is non-empty only  *)
(* if the cell's grid value is 0.                                          *)
(***************************************************************************)
C5_OptionsOnlyOnEmpty ==
  \A rc \in Cells :
    gridOptions[rc[1]][rc[2]] # << >> => grid[rc[1]][rc[2]] = 0

\* After a commit step that filled a cell while other cells keep options.
C5_Witness ==
  /\ pc = "list"
  /\ \E rc \in Cells : Given[rc[1]][rc[2]] = 0 /\ grid[rc[1]][rc[2]] # 0
  /\ \E rc \in Cells : Len(gridOptions[rc[1]][rc[2]]) >= 2

(***************************************************************************)
(* C7.  After each candidate computation, every empty cell's candidate set *)
(* is the ascending sequence of the values absent from its row, column and *)
(* 3x3 box, every filled cell's candidate set is empty, and the box index  *)
(* (col/3)+1+(row/3)*3 looks up exactly the cells of the cell's own box.   *)
(***************************************************************************)
C7_CandidatesExact ==
  pc \in {"loop", "check", "exit", "done"} =>
    \A rc \in Cells :
      /\ squareCells(getSquareFromRowCol(rc[1], rc[2])) = BoxOf(rc)
      /\ IF grid[rc[1]][rc[2]] = 0
         THEN /\ OptionSet(gridOptions, rc) = Legal(grid, rc)
              /\ Ascending(gridOptions[rc[1]][rc[2]])
         ELSE gridOptions[rc[1]][rc[2]] = << >>

\* A recomputation inside the loop that leaves a cell with several options.
C7_Witness ==
  /\ pc = "check"
  /\ \E rc \in Cells : Given[rc[1]][rc[2]] = 0 /\ grid[rc[1]][rc[2]] # 0
  /\ \E rc \in Cells : Len(gridOptions[rc[1]][rc[2]]) >= 2

(***************************************************************************)
(* C8.  One reducer call on one zone applies at most one deduction: when   *)
(* some value has tally 1 in the zone, one such value v is chosen and the  *)
(* one zone cell listing v gets the candidate set <<v>>; when no value has *)
(* tally 1 nothing changes.  The grid and all other candidate sets, inside *)
(* and outside the zone, are unchanged.                                    *)
(***************************************************************************)
\* The cells of the k-th zone in processing order: boxes, rows, columns.
ZoneAt(k) ==
  IF k <= 9 THEN { rc \in Cells : (rc[2] \div 3) + 1 + (rc[1] \div 3) * 3 = k }
  ELSE IF k <= 18 THEN { rc \in Cells : rc[1] = k - 10 }
  ELSE { rc \in Cells : rc[2] = k - 19 }

OneDeduction(Z) ==
  IF \E v \in 1..9 : Tally(gridOptions, Z, v) = 1
  THEN \E v \in 1..9 : \E rc \in Z :
         /\ Tally(gridOptions, Z, v) = 1
         /\ v \in OptionSet(gridOptions, rc)
         /\ gridOptions' = [gridOptions EXCEPT ![rc[1]][rc[2]] = << v >>]
  ELSE gridOptions' = gridOptions

C8_OneDeductionPerCall ==
  [][pc = "reduce" => (grid' = grid /\ OneDeduction(ZoneAt(zone)))]_vars

\* All 27 calls are done, one of them collapsed a cell that had several
\* legal values, and another cell still has several options.
C8_Witness ==
  /\ pc = "fill"
  /\ \E rc \in Cells : /\ Len(gridOptions[rc[1]][rc[2]]) = 1
                        /\ Cardinality(Legal(grid, rc)) >= 2
  /\ \E rc \in Cells : Len(gridOptions[rc[1]][rc[2]]) >= 2

(***************************************************************************)
(* C9.  Soundness: if a valid full grid S agrees with all given digits,    *)
(* then in every state each non-zero grid cell equals S at that cell (so   *)
(* no given digit changes and no wrong value is committed), and once       *)
(* candidates have been computed each empty cell's candidate set contains  *)
(* S's value for the cell.                                                 *)
(***************************************************************************)
C9_Sound ==
  \A s \in Completions :
    LET S == strToGrid(s)
    IN  \A rc \in Cells :
        /\ str[rc[1] * 9 + rc[2] + 1] # 0
             => grid[rc[1]][rc[2]] = str[rc[1] * 9 + rc[2] + 1]
        /\ grid[rc[1]][rc[2]] # 0 => grid[rc[1]][rc[2]] = S[rc[1]][rc[2]]
        /\ (grid[rc[1]][rc[2]] = 0 /\ pc # "start")
             => S[rc[1]][rc[2]] \in OptionSet(gridOptions, rc)

\* A completable input on which the solve has committed a hidden single.
C9_Witness ==
  /\ Completions # {}
  /\ pc = "list"
  /\ \E rc \in Cells : /\ Given[rc[1]][rc[2]] = 0
                        /\ grid[rc[1]][rc[2]] # 0
                        /\ Cardinality(Legal(Given, rc)) >= 2

(***************************************************************************)
(* C10.  Whenever the loop terminates in Stalled, the freshly computed     *)
(* candidate sets contain no singleton for any empty cell and no zone in   *)
(* which some value occurs in exactly one cell's candidate set.            *)
(***************************************************************************)
C10_StalledIsFixpoint ==
  (pc = "done" /\ result = "Stalled") =>
    /\ gridOptions = listOptionsPerEmptyCell(grid, gridOptions)
    /\ \A rc \in Cells : Len(gridOptions[rc[1]][rc[2]]) # 1
    /\ \A Z \in Zones : \A v \in 1..9 : Tally(gridOptions, Z, v) # 1

\* Stalled after at least one productive iteration, with open options left.
C10_Witness ==
  /\ pc = "done"
  /\ result = "Stalled"
  /\ iter >= 2
  /\ \E rc \in Cells : Len(gridOptions[rc[1]][rc[2]]) >= 2

(***************************************************************************)
(* C1.  As claimed: for every 81-digit input, a solve that ends in Solved  *)
(* leaves a grid whose rows, columns and boxes each hold 1..9 once.        *)
(***************************************************************************)
C1_Original ==
  (pc = "done" /\ result = "Solved") => ValidGrid(grid)

(***************************************************************************)
(* C1 amended.  For every 81-digit input that a valid full grid completes, *)
(* a solve that ends in Solved leaves a grid whose rows, columns and boxes *)
(* each hold 1..9 exactly once.                                            *)
(***************************************************************************)
C1_SolvedIsValid ==
  (Completions # {} /\ pc = "done" /\ result = "Solved") => ValidGrid(grid)

\* A completable input solved in more than one iteration.
C1_Witness ==
  /\ Completions # {}
  /\ pc = "done"
  /\ result = "Solved"
  /\ iter >= 2

(***************************************************************************)
(* C2.  Every run terminates, in Solved or Stalled, after at most 81        *)
(* iterations (no more than the input has empty cells): remains is the     *)
(* empty-cell count at the start of the iteration, and every iteration     *)
(* that does not end the loop leaves strictly fewer empty cells.           *)
(***************************************************************************)
C2_Terminates ==
  /\ [](iter <= Empties(Given) /\ Empties(Given) <= 81)
  /\ [](pc \in {"reduce", "fill"} => remains = Empties(grid))
  /\ [][(pc = "check" /\ pc' = "loop")
          => (Empties(grid) < remains /\ remains' = Empties(grid))]_vars
  /\ [](pc = "start" => <>(pc = "done" /\ result \in {"Solved", "Stalled"}))

\* The loop head is reached again after an iteration that made progress.
C2_Witness ==
  /\ pc = "loop"
  /\ iter >= 2
  /\ remains > 0

(***************************************************************************)
(* C4.  Whenever candidate computation leaves a cell whose grid value is 0 *)
(* with an empty candidate set, the solve ends in an outcome distinct from *)
(* the ordinary Stalled failure.                                           *)
(***************************************************************************)
C4_DeadEndDistinct ==
  (pc = "done" /\ DeadEnd) => result # "Stalled"

(***************************************************************************)
(* C6.  As claimed: for an input with zero empty cells Solved is reported  *)
(* with no loop iteration and no candidate computation pass.               *)
(***************************************************************************)
C6_Original ==
  (Empties(Given) = 0 /\ pc = "done") =>
    (result = "Solved" /\ iter = 0 /\ listCalls = 0)

(***************************************************************************)
(* C6 amended.  For an input with zero empty cells Solved is reported with *)
(* no loop iteration; the only candidate computation is the initial pass,  *)
(* which leaves every candidate set empty and the grid as given.           *)
(***************************************************************************)
C6_FullInputSolvedAtOnce ==
  Empties(Given) = 0 =>
    /\ iter = 0
    /\ grid = Given
    /\ \A rc \in Cells : gridOptions[rc[1]][rc[2]] = << >>
    /\ pc = "done" => (result = "Solved" /\ listCalls = 1)

\* A full input has been reported.
C6_Witness ==
  /\ Empties(Given) = 0
  /\ pc = "done"
  /\ result = "Solved"

(***************************************************************************)
(* C3.  Determinism: for a given input every run ends in the same terminal *)
(* state and, if Solved, with the same final grid, whatever order the      *)
(* reducer iterates over the map of a zone: a second run on the same input *)
(* ends as the first one did.                                              *)
(***************************************************************************)
C3_Deterministic ==
  (pc = "done" /\ first.result # "none") =>
    /\ result = first.result
    /\ result = "Solved" => grid = first.grid
====
